---- MODULE Spec2Model ----
(***************************************************************************)
(* The per-chat game state machine of DankTimesBot (src/src/chat/chat.ts): *)
(* message processing, score awards and punishments, reset confirmation,   *)
(* leaderboard change detection, the hardcore-mode check, the catalogue of *)
(* dank times and the validating setters.                                  *)
(*                                                                         *)
(* Texts are sequences of one-character strings, so that toUpperCase is a  *)
(* real conversion.  Non-integer factors (the multiplier setting, 1.5,     *)
(* 0.25, 0.1) are fractions <<numerator, denominator>>; Math.round is      *)
(* floor(x + 1/2).                                                         *)
(***************************************************************************)
EXTENDS Integers, Sequences, FiniteSets, TLC

VARIABLES
  now,                        \* the clock: unix seconds (moment.tz(timezone))
  myId,                       \* Chat.myId
  running,                    \* Chat.running
  myLastHour,                 \* Chat.myLastHour
  myLastMinute,               \* Chat.myLastMinute
  users,                      \* Chat.users: the Map, as records in insertion order
  dankTimes,                  \* Chat.dankTimes
  randomDankTimes,            \* Chat.randomDankTimes
  settings,                   \* Chat.settings
  awaitingResetConfirmation,  \* Chat.awaitingResetConfirmation
  myLastLeaderboard,          \* Chat.myLastLeaderboard
  call,                       \* the operation that ran last, with its arguments
  output,                     \* what that operation returned
  events,                     \* the extension points it triggered, in order
  pre,                        \* the chat's fields as they were when it started
  opCount                     \* operations so far that changed the chat or the clock

vars == <<now, myId, running, myLastHour, myLastMinute, users, dankTimes, randomDankTimes,
          settings, awaitingResetConfirmation, myLastLeaderboard, call, output,
          events, pre, opCount>>

---------------------------------------------------------------------------
(* Bounds of the model. *)

MaxOps == 3

---------------------------------------------------------------------------
(* Constants of the program. *)

handicapMultiplier == <<3, 2>>
bottomPartThatHasHandicap == <<1, 4>>
punishByFraction == <<1, 10>>
punishByPoints == 10
day == 24 * 60 * 60
messageTimeoutSeconds == 60
NoUser == -1

---------------------------------------------------------------------------
(* Texts. *)

LowerCase == <<"a","b","c","d","e","f","g","h","i","j","k","l","m",
               "n","o","p","q","r","s","t","u","v","w","x","y","z">>
UpperCase == <<"A","B","C","D","E","F","G","H","I","J","K","L","M",
               "N","O","P","Q","R","S","T","U","V","W","X","Y","Z">>

charToUpperCase(ch) ==
  IF \E i \in 1..Len(LowerCase) : LowerCase[i] = ch
    THEN UpperCase[CHOOSE i \in 1..Len(LowerCase) : LowerCase[i] = ch]
    ELSE ch

toUpperCase(text) == [i \in 1..Len(text) |-> charToUpperCase(text[i])]

bacon == <<"b","a","c","o","n">>
dank == <<"d","a","n","k">>
t1001 == <<"1","0","0","1">>
YES == <<"Y","E","S">>
yes == <<"y","e","s">>
no == <<"n","o">>

cleanText(text) == <<"cleaned", text>>

---------------------------------------------------------------------------
(* Arithmetic. *)

\* Math.round(num / den) for den > 0: the nearest integer, halves upwards.
MathRound(num, den) == (2 * num + den) \div (2 * den)

MathMax(a, b) == IF a > b THEN a ELSE b

\* moment's hours() and minutes() of a unix time (the chat's timezone is UTC).
hours(t) == (t \div 3600) % 24
minutes(t) == (t \div 60) % 60

---------------------------------------------------------------------------
(* Dank times (DankTime) and the catalogue. *)

DankTime(hour, minute, texts, points) ==
  [hour |-> hour, minute |-> minute, texts |-> texts, points |-> points]

hasText(dankTime, text) == \E i \in 1..Len(dankTime.texts) : dankTime.texts[i] = text

\* The normal dank times of the chat, sorted by hour and minute, and the random
\* dank time of the day, worth pointsPerRandomTime.
Midnight == DankTime(0, 0, <<dank>>, 13)
TenOClock == DankTime(10, 0, <<bacon, dank, t1001>>, 10)
RandomTime == DankTime(10, 1, <<t1001>>, 60)

\* Array.prototype.filter, keeping the order.
RECURSIVE SelectByText(_, _)
SelectByText(list, text) ==
  IF list = <<>> THEN <<>>
  ELSE IF hasText(Head(list), text)
    THEN <<Head(list)>> \o SelectByText(Tail(list), text)
    ELSE SelectByText(Tail(list), text)

getDankTimesByText(text) == SelectByText(dankTimes \o randomDankTimes, text)

\* What getDankTime returns when it finds nothing.
null == [null |-> TRUE]

\* The first normal dank time with the hour and minute, or null.
RECURSIVE getDankTime(_, _, _)
getDankTime(list, hour, minute) ==
  IF list = <<>> THEN null
  ELSE IF Head(list).hour = hour /\ Head(list).minute = minute
    THEN Head(list)
    ELSE getDankTime(Tail(list), hour, minute)

\* Array.prototype.indexOf, counting from 1.
indexOf(list, item) ==
  CHOOSE i \in 1..Len(list) : list[i] = item /\ \A j \in 1..(i - 1) : list[j] # item

\* Array.prototype.splice(index, 1).
splice(list, index) == SubSeq(list, 1, index - 1) \o SubSeq(list, index + 1, Len(list))

\* DankTime.compare: by hour, then by minute.
compare(a, b) == IF a.hour # b.hour THEN a.hour - b.hour ELSE a.minute - b.minute

RECURSIVE insertDankTime(_, _)
insertDankTime(sorted, dankTime) ==
  IF sorted = <<>> THEN <<dankTime>>
  ELSE IF compare(dankTime, Head(sorted)) < 0
    THEN <<dankTime>> \o sorted
    ELSE <<Head(sorted)>> \o insertDankTime(Tail(sorted), dankTime)

\* Array.prototype.sort(DankTime.compare): stable.
RECURSIVE sort(_)
sort(list) ==
  IF list = <<>> THEN <<>>
  ELSE insertDankTime(sort(SubSeq(list, 1, Len(list) - 1)), list[Len(list)])

\* addDankTime without the splice of the existing dank time.
dankTimesWithBoth(list, dankTime) == sort(Append(list, dankTime))
\* The array addDankTime leaves.
dankTimesWith(list, dankTime) ==
  LET existing == getDankTime(list, dankTime.hour, dankTime.minute)
      kept == IF existing # null THEN splice(list, indexOf(list, existing)) ELSE list
  IN sort(Append(kept, dankTime))

\* removeDankTime splicing the head of the array instead of the dank time found.
dankTimesWithoutHead(list, hour, minute) ==
  IF getDankTime(list, hour, minute) # null THEN splice(list, 1) ELSE list
\* The array removeDankTime leaves.
dankTimesWithout(list, hour, minute) ==
  LET dankTime == getDankTime(list, hour, minute)
  IN IF dankTime # null THEN splice(list, indexOf(list, dankTime)) ELSE list

\* The check against the normal dank times alone.
hourAndMinuteRegisteredAsNormal(normal, random, hour, minute) ==
  \E i \in 1..Len(normal) : normal[i].hour = hour /\ normal[i].minute = minute
hourAndMinuteAlreadyRegistered(normal, random, hour, minute) ==
  \/ \E i \in 1..Len(normal) : normal[i].hour = hour /\ normal[i].minute = minute
  \/ \E i \in 1..Len(random) : random[i].hour = hour /\ random[i].minute = minute

Digits == <<"0", "1", "2", "3", "4", "5", "6", "7", "8", "9">>

\* IUtil.padNumber: two digits for a number from 0 to 99.
padNumber(n) == <<Digits[(n \div 10) + 1], Digits[(n % 10) + 1]>>

\* moment.add reaching one hour further.
addOneMore(t, amount) == t + (amount + 1) * 3600
\* moment.add(amount, "hours") and moment.minutes(minute) on a unix time.
add(t, amount) == t + amount * 3600
setMinutes(t, minute) == t - minutes(t) * 60 + minute * 60

\* The moment an iteration of generateRandomDankTimes lands on.
randomMoment(nowT, pick) == setMinutes(add(nowT, pick[1]), pick[2])

\* The iterations of generateRandomDankTimes from the i-th on; picks[i] holds
\* the two values Math.floor(Math.random() * 23) and Math.floor(Math.random() * 59)
\* of the i-th iteration.
RECURSIVE generateRandomDankTimesFrom(_, _, _, _, _, _)
generateRandomDankTimesFrom(i, picks, random, normal, nowT, pointsPerRandomTime) ==
  IF i > Len(picks) THEN random
  ELSE LET moment == randomMoment(nowT, picks[i])
           hour == hours(moment)
           minute == minutes(moment)
           text == padNumber(hour) \o padNumber(minute)
       IN generateRandomDankTimesFrom(i + 1, picks,
            IF ~hourAndMinuteAlreadyRegistered(normal, random, hour, minute)
              THEN Append(random, DankTime(hour, minute, <<text>>, pointsPerRandomTime))
              ELSE random,
            normal, nowT, pointsPerRandomTime)

---------------------------------------------------------------------------
(* Users (User) and the users map, kept as a sequence in insertion order. *)

User(id, name) ==
  [id |-> id, name |-> name, score |-> 0, lastScoreChange |-> 0,
   lastScoreTimestamp |-> 0, called |-> FALSE]

addToScore(user, delta, timestamp) ==
  [user EXCEPT !.score = @ + delta,
               !.lastScoreChange = @ + delta,
               !.lastScoreTimestamp = timestamp]

resetScore(user) == [user EXCEPT !.score = 0]

resetLastScoreChange(user) == [user EXCEPT !.lastScoreChange = 0]

usersHas(us, userId) == \E i \in 1..Len(us) : us[i].id = userId

usersGet(us, userId) == us[CHOOSE i \in 1..Len(us) : us[i].id = userId]

\* Map.set: a new key goes last, an old key keeps its place.
usersSet(us, user) ==
  IF usersHas(us, user.id)
    THEN [i \in 1..Len(us) |-> IF us[i].id = user.id THEN user ELSE us[i]]
    ELSE Append(us, user)

\* User.compare: by score, highest first.
userBefore(a, b) == a.score > b.score

\* Array.prototype.sort with User.compare: stable, so equal scores keep the
\* order of insertion.
RECURSIVE insertSorted(_, _)
insertSorted(sorted, user) ==
  IF sorted = <<>> THEN <<user>>
  ELSE IF userBefore(user, Head(sorted))
    THEN <<user>> \o sorted
    ELSE <<Head(sorted)>> \o insertSorted(Tail(sorted), user)

RECURSIVE sortUsers(_)
sortUsers(us) ==
  IF us = <<>> THEN <<>>
  ELSE insertSorted(sortUsers(SubSeq(us, 1, Len(us) - 1)), us[Len(us)])

sortedUsers(us) == sortUsers(us)

\* Array.prototype.slice(-n): the last n elements, all of them when n is 0 or
\* not less than the length.
sliceFromEnd(list, n) ==
  IF n = 0 \/ n >= Len(list) THEN list ELSE SubSeq(list, Len(list) - n + 1, Len(list))

\* The number of handicapped users rounded down.
noOfHandicappedFloored(userCount) ==
  (userCount * bottomPartThatHasHandicap[1]) \div bottomPartThatHasHandicap[2]
noOfHandicapped(userCount) ==
  MathRound(userCount * bottomPartThatHasHandicap[1], bottomPartThatHasHandicap[2])

userDeservesHandicapBonus(us, userId) ==
  IF ~settings.handicaps \/ Len(us) < 2 THEN FALSE
  ELSE LET handicapped == sliceFromEnd(sortedUsers(us), noOfHandicapped(Len(us)))
       IN \E i \in 1..Len(handicapped) : handicapped[i].id = userId

---------------------------------------------------------------------------
(* The plugin host: trigger returns what the plugins reply, here one reply per
   event, and the event is recorded. *)

pluginReply(event) == <<"plugin", event[1]>>

\* The result of a handler: the fields it may change, its replies and the
\* events it triggered.
Result(us, lastHour, lastMinute, awaiting, leaderboard, out, evs) ==
  [users |-> us, lastHour |-> lastHour, lastMinute |-> lastMinute,
   awaitingResetConfirmation |-> awaiting, myLastLeaderboard |-> leaderboard,
   output |-> out, events |-> evs]

NoEffect == Result(users, myLastHour, myLastMinute, awaitingResetConfirmation,
                   myLastLeaderboard, <<>>, <<>>)

\* output = output.concat(this.pluginHost.trigger(event, ...))
withTrigger(result, event) ==
  [result EXCEPT !.output = @ \o <<pluginReply(event)>>, !.events = Append(@, event)]

---------------------------------------------------------------------------
(* Leaderboards. *)

\* new Leaderboard(Array.from(this.users.values())): a snapshot of the users.
Leaderboard(us) ==
  <<"leaderboard",
    [i \in 1..Len(us) |-> [id |-> us[i].id, name |-> us[i].name, score |-> us[i].score,
                           lastScoreChange |-> us[i].lastScoreChange]]>>

NoLeaderboard == <<"undefined">>

\* The loop of leaderboardChanged over the users, from the i-th on.
RECURSIVE leaderboardChangedFrom(_, _)
leaderboardChangedFrom(us, i) ==
  IF i > Len(us) THEN FALSE
  ELSE IF us[i].lastScoreChange # 0 THEN TRUE
  ELSE leaderboardChangedFrom(us, i + 1)

leaderboardChanged == leaderboardChangedFrom(users, 1)

\* The string generateLeaderboard returns: its title and the new snapshot
\* rendered against the old one.
leaderboardText(final, new, old) ==
  <<IF final THEN "FINAL LEADERBOARD" ELSE "LEADERBOARD", new, old>>

\* A leaderboard that keeps the score changes.
generateLeaderboardUsersKept(us) == us

generateLeaderboardUsers(us) == [i \in 1..Len(us) |-> resetLastScoreChange(us[i])]

---------------------------------------------------------------------------
(* Chat.handleAwaitingReset *)

\* A confirmation that must be in capitals.
isConfirmationInCapitals(msgText) == msgText = YES

isConfirmation(msgText) == toUpperCase(msgText) = YES

\* The reply to "YES": the final leaderboard, the scores reset, the event.
confirmReset ==
  LET board == Leaderboard(users)
      shown == generateLeaderboardUsers(users)
      reset == [i \in 1..Len(shown) |-> resetScore(shown[i])]
  IN withTrigger(
       Result(reset, myLastHour, myLastMinute, NoUser, board,
              <<<<"Leaderboard has been reset!",
                  leaderboardText(TRUE, board, myLastLeaderboard)>>>>, <<>>),
       <<"LeaderboardReset", reset>>)

\* A reply other than "YES" that leaves the chat waiting.
declineResetStillWaiting == NoEffect

\* Any other reply: only this.awaitingResetConfirmation = -1.
declineReset ==
  Result(users, myLastHour, myLastMinute, NoUser, myLastLeaderboard, <<>>, <<>>)

handleAwaitingReset(userId, userName, msgText, msgUnixTime) ==
  IF awaitingResetConfirmation = userId
    THEN IF isConfirmation(msgText) THEN confirmReset ELSE declineReset
    ELSE NoEffect

---------------------------------------------------------------------------
(* Chat.handleDankTimeInputMessage *)

\* A first score that forgets the multiplier.
firstScoreWithoutMultiplier(points, handicap) ==
  IF handicap
    THEN MathRound(points * handicapMultiplier[1], handicapMultiplier[2])
    ELSE MathRound(points, 1)

\* Math.round(dankTime.points * multiplier [* handicapMultiplier])
firstScore(points, handicap) ==
  IF handicap
    THEN MathRound(points * settings.multiplier[1] * handicapMultiplier[1],
                   settings.multiplier[2] * handicapMultiplier[2])
    ELSE MathRound(points * settings.multiplier[1], settings.multiplier[2])

\* A later score that includes the multiplier.
laterScoreMultiplied(points, handicap) == firstScore(points, handicap)
\* A later score that rounds the handicap down.
laterScoreFloored(points, handicap) ==
  IF handicap
    THEN (points * handicapMultiplier[1]) \div handicapMultiplier[2]
    ELSE points

\* Math.round(handicap ? dankTime.points * handicapMultiplier : dankTime.points)
laterScore(points, handicap) ==
  IF handicap
    THEN MathRound(points * handicapMultiplier[1], handicapMultiplier[2])
    ELSE MathRound(points, 1)

\* A score change announced with the new score instead of the change.
changeScoreAnnouncingScore(us, userId, delta, nowT, markCalled) ==
  LET user == addToScore(usersGet(us, userId), delta, nowT)
  IN [users |-> usersSet(us, IF markCalled THEN [user EXCEPT !.called = TRUE] ELSE user),
      event |-> <<"UserScoreChange", userId, user.score>>]
\* user.addToScore(delta, now.unix()) and the UserScoreChange trigger.
changeScore(us, userId, delta, nowT, markCalled) ==
  LET user == addToScore(usersGet(us, userId), delta, nowT)
  IN [users |-> usersSet(us, IF markCalled THEN [user EXCEPT !.called = TRUE] ELSE user),
      event |-> <<"UserScoreChange", userId, delta>>]

\* A penalty that takes back what the first caller got.
repeatPenaltyMultiplied(points) ==
  -MathRound(points * settings.multiplier[1], settings.multiplier[2])

\* -dankTime.points, for a user who already called this time.
repeatPenalty(points) == -points

cacheNeedsResetting(dankTime) ==
  myLastHour # dankTime.hour \/ myLastMinute # dankTime.minute

\* The body of the loop for a dank time that is now.
scoreDankTime(us, userId, dankTime, nowT) ==
  IF cacheNeedsResetting(dankTime)
    THEN LET uncalled == [i \in 1..Len(us) |-> [us[i] EXCEPT !.called = FALSE]]
             score == firstScore(dankTime.points, userDeservesHandicapBonus(uncalled, userId))
             changed == changeScore(uncalled, userId, score, nowT, TRUE)
             scored == withTrigger(
                         Result(changed.users, dankTime.hour, dankTime.minute,
                                awaitingResetConfirmation, myLastLeaderboard, <<>>, <<>>),
                         changed.event)
         IN IF settings.firstNotifications
              THEN [scored EXCEPT !.output =
                      Append(@, <<"was the first to score!", usersGet(changed.users, userId).name>>)]
              ELSE scored
    ELSE IF usersGet(us, userId).called
      THEN LET changed == changeScore(us, userId, repeatPenalty(dankTime.points), nowT, FALSE)
           IN withTrigger(
                Result(changed.users, myLastHour, myLastMinute,
                       awaitingResetConfirmation, myLastLeaderboard, <<>>, <<>>),
                changed.event)
      ELSE LET score == laterScore(dankTime.points, userDeservesHandicapBonus(us, userId))
               changed == changeScore(us, userId, score, nowT, TRUE)
           IN withTrigger(
                Result(changed.users, myLastHour, myLastMinute,
                       awaitingResetConfirmation, myLastLeaderboard, <<>>, <<>>),
                changed.event)

isNow(dankTime, nowT) == hours(nowT) = dankTime.hour /\ minutes(nowT) = dankTime.minute

\* A punishment by the last dank time found instead of the highest.
nextSubtractByLast(points, subtractBy) == points

\* else if (dankTime.points > subtractBy) { subtractBy = dankTime.points; }
nextSubtractBy(points, subtractBy) == IF points > subtractBy THEN points ELSE subtractBy

\* The loop over the dank times found, from the i-th on, and the punishment
\* after it.
RECURSIVE forEachDankTime(_, _, _, _, _, _)
forEachDankTime(us, userId, found, i, subtractBy, nowT) ==
  IF i > Len(found)
    THEN LET changed == changeScore(us, userId, -subtractBy, nowT, FALSE)
         IN withTrigger(
              Result(changed.users, myLastHour, myLastMinute,
                     awaitingResetConfirmation, myLastLeaderboard, <<>>, <<>>),
              changed.event)
    ELSE IF isNow(found[i], nowT)
      THEN scoreDankTime(us, userId, found[i], nowT)
      ELSE forEachDankTime(us, userId, found, i + 1,
                           nextSubtractBy(found[i].points, subtractBy), nowT)

\* A handler that creates and renames the sender before it looks for dank times.
handleDankTimeInputMessageForAnyText(userId, userName, msgText, msgUnixTime, nowT) ==
  LET dankTimesByText == getDankTimesByText(msgText)
      created == IF usersHas(users, userId) THEN users
                 ELSE usersSet(users, User(userId, userName))
      user == usersGet(created, userId)
      named == IF user.name # userName
                 THEN usersSet(created, [user EXCEPT !.name = userName])
                 ELSE created
  IN IF Len(dankTimesByText) < 1
       THEN [NoEffect EXCEPT !.users = named]
       ELSE forEachDankTime(named, userId, dankTimesByText, 1, 0, nowT)
handleDankTimeInputMessage(userId, userName, msgText, msgUnixTime, nowT) ==
  LET dankTimesByText == getDankTimesByText(msgText)
  IN IF Len(dankTimesByText) < 1
       THEN NoEffect
       ELSE LET created == IF usersHas(users, userId) THEN users
                           ELSE usersSet(users, User(userId, userName))
                user == usersGet(created, userId)
                named == IF user.name # userName
                           THEN usersSet(created, [user EXCEPT !.name = userName])
                           ELSE created
            IN forEachDankTime(named, userId, dankTimesByText, 1, 0, nowT)

---------------------------------------------------------------------------
(* Chat.processMessage *)

\* A timeout that starts a second late.
messageTimeoutLate(nowT, msgUnixTime) == nowT - msgUnixTime > messageTimeoutSeconds

messageTimeout(nowT, msgUnixTime) == nowT - msgUnixTime >= messageTimeoutSeconds

\* A dispatch that asks whether the chat is running first.
handleMessageRunningFirst(userId, userName, msgText, msgUnixTime, nowT) ==
  IF running
    THEN handleDankTimeInputMessage(userId, userName, msgText, msgUnixTime, nowT)
    ELSE IF awaitingResetConfirmation = userId
      THEN handleAwaitingReset(userId, userName, msgText, msgUnixTime)
      ELSE NoEffect
\* A dispatch that does not look at running.
handleMessageWhileStopped(userId, userName, msgText, msgUnixTime, nowT) ==
  IF awaitingResetConfirmation = userId
    THEN handleAwaitingReset(userId, userName, msgText, msgUnixTime)
    ELSE handleDankTimeInputMessage(userId, userName, msgText, msgUnixTime, nowT)

handleMessage(userId, userName, msgText, msgUnixTime, nowT) ==
  IF awaitingResetConfirmation = userId
    THEN handleAwaitingReset(userId, userName, msgText, msgUnixTime)
    ELSE IF running
      THEN handleDankTimeInputMessage(userId, userName, msgText, msgUnixTime, nowT)
      ELSE NoEffect

\* processMessage triggering PostMessage before the handler has run.
processedPostFirst(userId, userName, msgText, msgUnixTime, nowT) ==
  LET before == <<"PreMesssage", msgText>>
      after == <<"PostMessage", cleanText(msgText)>>
      handled == handleMessage(userId, userName, msgText, msgUnixTime, nowT)
  IN [handled EXCEPT !.output = <<pluginReply(before), pluginReply(after)>> \o @,
                     !.events = <<before, after>> \o @]
\* What processMessage does with a message that is not ignored.
processed(userId, userName, msgText, msgUnixTime, nowT) ==
  LET before == <<"PreMesssage", msgText>>
      after == <<"PostMessage", cleanText(msgText)>>
      handled == handleMessage(userId, userName, msgText, msgUnixTime, nowT)
  IN withTrigger(
       [handled EXCEPT !.output = <<pluginReply(before)>> \o @,
                       !.events = <<before>> \o @],
       after)

---------------------------------------------------------------------------
(* Chat.hardcoreModeCheck *)

\* A punishment that rounds the fraction down.
punishByFloored(score) ==
  MathMax((score * punishByFraction[1]) \div punishByFraction[2], punishByPoints)

punishBy(score) ==
  MathMax(MathRound(score * punishByFraction[1], punishByFraction[2]), punishByPoints)

hardcorePunished(user, timestamp) == timestamp - user.lastScoreTimestamp >= day

hardcoreModeCheckUsers(us, timestamp) ==
  IF settings.hardcoreMode
    THEN [i \in 1..Len(us) |->
            IF hardcorePunished(us[i], timestamp)
              THEN addToScore(us[i], -punishBy(us[i].score), timestamp)
              ELSE us[i]]
    ELSE us

---------------------------------------------------------------------------
(* The environment: the clock, the senders and what they send. *)

DayZero == 17361 * day    \* 2017-07-14 00:00:00 UTC

\* The instants the clock is read at: 10:00:00 and 10:01:00 of the first day,
\* 00:00:00 and 10:00:00 of the second.
TenAM == 10 * 3600
ClockPoints == {DayZero + TenAM, DayZero + TenAM + 60, DayZero + day, DayZero + day + TenAM}

\* The Telegram id of the chat.
ChatId == 0 - 1001

UserIds == {1, 2}

\* The names a sender is seen with: the second user changes name.
NamesOf(userId) == IF userId = 1 THEN {"ann"} ELSE {"bob", "bobby"}
MsgTexts == {bacon, dank, t1001, YES, yes, no}
MsgAges == {59, 60}

\* A user loaded with the chat, who last scored two days ago.
Veteran ==
  [id |-> 1, name |-> "ann", score |-> 105, lastScoreChange |-> 0,
   lastScoreTimestamp |-> DayZero - day, called |-> FALSE]

Defaults ==
  [multiplier |-> <<2, 1>>, handicaps |-> FALSE, hardcoreMode |-> FALSE,
   firstNotifications |-> FALSE, numberOfRandomTimes |-> 1, pointsPerRandomTime |-> 60]

Hardcore ==
  [multiplier |-> <<2, 1>>, handicaps |-> TRUE, hardcoreMode |-> TRUE,
   firstNotifications |-> TRUE, numberOfRandomTimes |-> 1, pointsPerRandomTime |-> 60]

\* The chats the constructor is given: their settings and their users.
ChatChoices ==
  { [settings |-> Defaults, users |-> <<>>],
    [settings |-> Hardcore, users |-> <<>>],
    [settings |-> Hardcore, users |-> <<Veteran>>] }

Call(op, userId, userName, msgText, msgUnixTime, timestamp) ==
  [op |-> op, userId |-> userId, userName |-> userName, msgText |-> msgText,
   msgUnixTime |-> msgUnixTime, timestamp |-> timestamp]

Idle == Call("idle", NoUser, "", <<>>, 0, 0)

\* The fields of the chat, as an operation finds them.
Fields ==
  [now |-> now, id |-> myId, running |-> running, lastHour |-> myLastHour,
   lastMinute |-> myLastMinute, users |-> users, dankTimes |-> dankTimes,
   randomDankTimes |-> randomDankTimes, settings |-> settings,
   awaitingResetConfirmation |-> awaitingResetConfirmation,
   myLastLeaderboard |-> myLastLeaderboard]

---------------------------------------------------------------------------
(* The state machine. *)

\* An operation that changes the chat or the clock counts against MaxOps.
Changes ==
  <<now, myId, running, myLastHour, myLastMinute, users, dankTimes, randomDankTimes,
    settings, awaitingResetConfirmation, myLastLeaderboard>>' #
  <<now, myId, running, myLastHour, myLastMinute, users, dankTimes, randomDankTimes,
    settings, awaitingResetConfirmation, myLastLeaderboard>>

Counted ==
  IF Changes THEN opCount < MaxOps /\ opCount' = opCount + 1
             ELSE opCount' = opCount

\* new Chat(moment, util, id, pluginhost, running, 0, 0, users, dankTimes,
\*          randomDankTimes, settings)
Init ==
  /\ now = DayZero + TenAM
  /\ myId = ChatId
  /\ running = TRUE
  /\ myLastHour = 0
  /\ myLastMinute = 0
  /\ dankTimes = <<Midnight, TenOClock>>
  /\ randomDankTimes = <<RandomTime>>
  /\ \E chat \in ChatChoices : settings = chat.settings /\ users = chat.users
  /\ awaitingResetConfirmation = NoUser
  /\ myLastLeaderboard = NoLeaderboard
  /\ call = Idle
  /\ output = <<>>
  /\ events = <<>>
  /\ pre = <<>>
  /\ opCount = 0

Tick ==
  /\ call = Idle
  /\ \E t \in ClockPoints : t > now /\ now' = t
  /\ call' = Call("tick", NoUser, "", <<>>, 0, 0)
  /\ output' = <<>>
  /\ events' = <<>>
  /\ pre' = Fields
  /\ UNCHANGED <<myId, running, myLastHour, myLastMinute, users, dankTimes, randomDankTimes,
                 settings, awaitingResetConfirmation, myLastLeaderboard>>
  /\ Counted

\* The start and stop commands assign the public field running.
setRunning(value) ==
  /\ call = Idle
  /\ running # value
  /\ running' = value
  /\ call' = Call("setRunning", NoUser, "", <<>>, 0, 0)
  /\ output' = <<>>
  /\ events' = <<>>
  /\ pre' = Fields
  /\ UNCHANGED <<myId, now, myLastHour, myLastMinute, users, dankTimes, randomDankTimes,
                 settings, awaitingResetConfirmation, myLastLeaderboard>>
  /\ Counted

\* The reset command assigns the public field awaitingResetConfirmation.
setAwaitingResetConfirmation(userId) ==
  /\ call = Idle
  /\ awaitingResetConfirmation # userId
  /\ awaitingResetConfirmation' = userId
  /\ call' = Call("setAwaitingResetConfirmation", userId, "", <<>>, 0, 0)
  /\ output' = <<>>
  /\ events' = <<>>
  /\ pre' = Fields
  /\ UNCHANGED <<myId, now, running, myLastHour, myLastMinute, users, dankTimes,
                 randomDankTimes, settings, myLastLeaderboard>>
  /\ Counted

processMessage(userId, userName, msgText, msgUnixTime) ==
  /\ call = Idle
  /\ call' = Call("processMessage", userId, userName, msgText, msgUnixTime, 0)
  /\ pre' = Fields
  /\ IF messageTimeout(now, msgUnixTime)
       THEN /\ output' = <<>>
            /\ events' = <<>>
            /\ UNCHANGED <<users, myLastHour, myLastMinute, awaitingResetConfirmation,
                           myLastLeaderboard>>
       ELSE LET result == processed(userId, userName, msgText, msgUnixTime, now)
            IN /\ users' = result.users
               /\ myLastHour' = result.lastHour
               /\ myLastMinute' = result.lastMinute
               /\ awaitingResetConfirmation' = result.awaitingResetConfirmation
               /\ myLastLeaderboard' = result.myLastLeaderboard
               /\ output' = result.output
               /\ events' = result.events
  /\ UNCHANGED <<myId, now, running, dankTimes, randomDankTimes, settings>>
  /\ Counted

generateLeaderboard(final) ==
  /\ call = Idle
  /\ myLastLeaderboard' = Leaderboard(users)
  /\ output' = <<leaderboardText(final, Leaderboard(users), myLastLeaderboard)>>
  /\ users' = generateLeaderboardUsers(users)
  /\ call' = Call("generateLeaderboard", NoUser, "", <<>>, 0, 0)
  /\ events' = <<>>
  /\ pre' = Fields
  /\ UNCHANGED <<myId, now, running, myLastHour, myLastMinute, dankTimes, randomDankTimes,
                 settings, awaitingResetConfirmation>>
  /\ Counted

hardcoreModeCheck(timestamp) ==
  /\ call = Idle
  /\ users' = hardcoreModeCheckUsers(users, timestamp)
  /\ call' = Call("hardcoreModeCheck", NoUser, "", <<>>, 0, timestamp)
  /\ output' = <<>>
  /\ events' = <<>>
  /\ pre' = Fields
  /\ UNCHANGED <<myId, now, running, myLastHour, myLastMinute, dankTimes, randomDankTimes,
                 settings, awaitingResetConfirmation, myLastLeaderboard>>
  /\ Counted

\* The operation has returned: its replies are sent (main.ts) and the chat
\* waits for the next one.
sendReply ==
  /\ call # Idle
  /\ call' = Idle
  /\ output' = <<>>
  /\ events' = <<>>
  /\ pre' = <<>>
  /\ UNCHANGED <<myId, now, running, myLastHour, myLastMinute, users, dankTimes, randomDankTimes,
                 settings, awaitingResetConfirmation, myLastLeaderboard, opCount>>

Next ==
  \/ sendReply
  \/ Tick
  \/ \E value \in BOOLEAN : setRunning(value)
  \/ \E userId \in UserIds : setAwaitingResetConfirmation(userId)
  \/ \E userId \in UserIds, msgText \in MsgTexts, age \in MsgAges :
       \E userName \in NamesOf(userId) :
         processMessage(userId, userName, msgText, now - age)
  \/ generateLeaderboard(FALSE)
  \/ hardcoreModeCheck(now)

Spec == Init /\ [][Next]_vars

---------------------------------------------------------------------------
(* Chats with more users: the scoring of messages among three to six users. *)

Member(id, name, score) ==
  [id |-> id, name |-> name, score |-> score, lastScoreChange |-> 0,
   lastScoreTimestamp |-> DayZero - day, called |-> FALSE]

\* The users the constructor is given, in the order they joined.
Crowds ==
  { <<Member(1, "ann", 0), Member(3, "cyd", 0), Member(2, "bob", 0)>>,
    <<Member(3, "cyd", 50), Member(4, "dee", 40), Member(1, "ann", 30),
      Member(5, "eve", 20), Member(2, "bob", 10)>>,
    <<Member(2, "bob", 20), Member(6, "fay", 10), Member(1, "ann", 30),
      Member(5, "eve", 40), Member(4, "dee", 50), Member(3, "cyd", 60)>>,
    <<Member(3, "cyd", 60), Member(4, "dee", 50), Member(5, "eve", 40),
      Member(1, "ann", 30), Member(6, "fay", 0 - 10)>> }

InitCrowd ==
  /\ now = DayZero + TenAM
  /\ myId = ChatId
  /\ running = TRUE
  /\ myLastHour = 0
  /\ myLastMinute = 0
  /\ dankTimes = <<Midnight, TenOClock>>
  /\ randomDankTimes = <<RandomTime>>
  /\ settings \in {Defaults, Hardcore}
  /\ users \in Crowds
  /\ awaitingResetConfirmation = NoUser
  /\ myLastLeaderboard = NoLeaderboard
  /\ call = Idle
  /\ output = <<>>
  /\ events = <<>>
  /\ pre = <<>>
  /\ opCount = 0

NextCrowd ==
  \/ sendReply
  \/ Tick
  \/ \E userId \in UserIds, msgText \in MsgTexts, age \in MsgAges :
       \E userName \in NamesOf(userId) :
         processMessage(userId, userName, msgText, now - age)

SpecCrowd == InitCrowd /\ [][NextCrowd]_vars

---------------------------------------------------------------------------
(* The catalogue: the commands that add and remove dank times, and the
   generation of the random dank times at startup and at midnight. *)

\* The dank times the add command is given.
AddedDankTimes ==
  { DankTime(0, 0, <<dank>>, 5), DankTime(9, 30, <<bacon>>, 5),
    DankTime(10, 0, <<bacon>>, 7), DankTime(10, 1, <<t1001>>, 5), TenOClock }

RemovedTimes == {<<0, 0>>, <<9, 30>>, <<10, 0>>, <<10, 1>>}

\* Values of Math.floor(Math.random() * 23) and Math.floor(Math.random() * 59).
RandomHours == {0, 13, 22}
RandomMinutes == {0, 58}

TwoRandomTimes == [Defaults EXCEPT !.numberOfRandomTimes = 2, !.pointsPerRandomTime = 30]

InitCatalogue ==
  /\ now \in {DayZero + TenAM, DayZero + day}
  /\ myId = ChatId
  /\ running = TRUE
  /\ myLastHour = 0
  /\ myLastMinute = 0
  /\ dankTimes \in {<<>>, <<Midnight, TenOClock>>}
  /\ randomDankTimes = <<RandomTime>>
  /\ settings = TwoRandomTimes
  /\ users = <<>>
  /\ awaitingResetConfirmation = NoUser
  /\ myLastLeaderboard = NoLeaderboard
  /\ call = Idle
  /\ output = <<>>
  /\ events = <<>>
  /\ pre = <<>>
  /\ opCount = 0

addDankTime(dankTime) ==
  /\ call = Idle
  /\ dankTimes' = dankTimesWith(dankTimes, dankTime)
  /\ call' = [op |-> "addDankTime", dankTime |-> dankTime]
  /\ output' = <<>>
  /\ events' = <<>>
  /\ pre' = Fields
  /\ UNCHANGED <<now, myId, running, myLastHour, myLastMinute, users, randomDankTimes,
                 settings, awaitingResetConfirmation, myLastLeaderboard>>
  /\ Counted

removeDankTime(hour, minute) ==
  /\ call = Idle
  /\ dankTimes' = dankTimesWithout(dankTimes, hour, minute)
  /\ call' = [op |-> "removeDankTime", hour |-> hour, minute |-> minute]
  /\ output' = <<getDankTime(dankTimes, hour, minute) # null>>
  /\ events' = <<>>
  /\ pre' = Fields
  /\ UNCHANGED <<now, myId, running, myLastHour, myLastMinute, users, randomDankTimes,
                 settings, awaitingResetConfirmation, myLastLeaderboard>>
  /\ Counted

generateRandomDankTimes(picks) ==
  /\ call = Idle
  /\ randomDankTimes' =
       generateRandomDankTimesFrom(1, picks, <<>>, dankTimes, now,
                                   settings.pointsPerRandomTime)
  /\ call' = [op |-> "generateRandomDankTimes", picks |-> picks]
  /\ output' = randomDankTimes'
  /\ events' = <<>>
  /\ pre' = Fields
  /\ UNCHANGED <<now, myId, running, myLastHour, myLastMinute, users, dankTimes,
                 settings, awaitingResetConfirmation, myLastLeaderboard>>
  /\ Counted

NextCatalogue ==
  \/ sendReply
  \/ \E dankTime \in AddedDankTimes : addDankTime(dankTime)
  \/ \E time \in RemovedTimes : removeDankTime(time[1], time[2])
  \/ \E picks \in [1..settings.numberOfRandomTimes -> RandomHours \X RandomMinutes] :
       generateRandomDankTimes(picks)

SpecCatalogue == InitCatalogue /\ [][NextCatalogue]_vars

---------------------------------------------------------------------------
(* What the properties below speak of: the message of the last call, the chat
   as the call found it (pre) and as it left it. *)

IsMessage == call.op = "processMessage"

sender == call.userId

\* The message was sent less than 60 seconds before the chat read the clock.
NotStale == pre.now - call.msgUnixTime <= 59

Stale == pre.now - call.msgUnixTime >= 60

\* A message that processMessage hands to the dank time handler.
DankTimeMessage ==
  /\ IsMessage
  /\ NotStale
  /\ pre.running
  /\ pre.awaitingResetConfirmation # sender

Slots == dankTimes \o randomDankTimes

\* The slots the text is an alias of, by their place in the catalogue.
Matched == {i \in 1..Len(Slots) : \E k \in 1..Len(Slots[i].texts) : Slots[i].texts[k] = call.msgText}

AtLocalTime(slot) ==
  /\ slot.hour = (pre.now \div 3600) % 24
  /\ slot.minute = (pre.now \div 60) % 60

MatchedNow == {i \in Matched : AtLocalTime(Slots[i])}

\* The matched slot at the current local time.
TheSlot == Slots[CHOOSE i \in MatchedNow : \A j \in MatchedNow : i <= j]

IsActive(slot) == slot.hour = pre.lastHour /\ slot.minute = pre.lastMinute

Known(us, userId) == \E i \in 1..Len(us) : us[i].id = userId

Record(us, userId) == us[CHOOSE i \in 1..Len(us) : us[i].id = userId]

ScoreIn(us, userId) == IF Known(us, userId) THEN Record(us, userId).score ELSE 0

CalledIn(us, userId) == Known(us, userId) /\ Record(us, userId).called

\* The sender's place in the ordering by score, highest first, users of equal
\* score in the order they joined; a sender without a record joins last with
\* score 0.
UserCount == IF Known(pre.users, sender) THEN Len(pre.users) ELSE Len(pre.users) + 1

SenderPlace ==
  IF Known(pre.users, sender)
    THEN LET me == CHOOSE i \in 1..Len(pre.users) : pre.users[i].id = sender
         IN 1 + Cardinality({i \in 1..Len(pre.users) :
                               \/ pre.users[i].score > pre.users[me].score
                               \/ pre.users[i].score = pre.users[me].score /\ i < me})
    ELSE 1 + Cardinality({i \in 1..Len(pre.users) : pre.users[i].score >= 0})

\* round(userCount * 0.25)
BottomCount == (UserCount + 2) \div 4

HandicapEligible ==
  /\ settings.handicaps
  /\ UserCount >= 2
  /\ SenderPlace > UserCount - BottomCount

\* round(points * factor), with the handicap's 1.5 applied before rounding.
Award(points, factor) ==
  IF HandicapEligible
    THEN (2 * points * factor[1] * 3 + factor[2] * 2) \div (2 * factor[2] * 2)
    ELSE (2 * points * factor[1] + factor[2]) \div (2 * factor[2])

OthersCalledAsBefore ==
  \A i \in 1..Len(users) :
    users[i].id # sender => users[i].called = CalledIn(pre.users, users[i].id)

ActiveSlotAsBefore == myLastHour = pre.lastHour /\ myLastMinute = pre.lastMinute

Fired(event) == \E i \in 1..Len(events) : events[i] = event

---------------------------------------------------------------------------
\* C1: with the chat running, a message in time whose text is an alias of a
\* slot at the current local time that is not the active slot makes every
\* other user's called flag false, makes that slot the active one, adds
\* round(points x multiplier), times 1.5 before rounding for a sender who
\* deserves the handicap, to the sender's score and leaves the sender called.
C1_FirstCaller == DankTimeMessage /\ MatchedNow # {} /\ ~IsActive(TheSlot)

C2_LaterCaller ==
  DankTimeMessage /\ MatchedNow # {} /\ IsActive(TheSlot) /\ ~CalledIn(pre.users, sender)

C3_RepeatCaller ==
  DankTimeMessage /\ MatchedNow # {} /\ IsActive(TheSlot) /\ CalledIn(pre.users, sender)

C3_RepeatCallerLosesPoints ==
  C3_RepeatCaller =>
    /\ ScoreIn(users, sender) = ScoreIn(pre.users, sender) - TheSlot.points
    /\ CalledIn(users, sender)

C3_Scenario ==
  /\ DankTimeMessage
  /\ call.msgText = bacon
  /\ settings.multiplier = <<2, 1>>
  /\ MatchedNow # {}
  /\ TheSlot.hour = 10 /\ TheSlot.minute = 0 /\ TheSlot.points = 10

\* The chat as the three messages of the scenario find it: A is sender(1),
\* B the other user.
C3_BeforeFirst == pre.users = <<>> /\ ~IsActive(TheSlot)

C3_BeforeSecond ==
  /\ Len(pre.users) = 1
  /\ pre.users[1].id # sender
  /\ pre.users[1].score = 20 /\ pre.users[1].called
  /\ IsActive(TheSlot)

C3_BeforeThird ==
  /\ Len(pre.users) = 2
  /\ pre.users[1].id = sender
  /\ pre.users[1].score = 20 /\ pre.users[1].called
  /\ pre.users[2].score = 10 /\ pre.users[2].called
  /\ IsActive(TheSlot)

C3_ScenarioSteps ==
  /\ C3_BeforeFirst =>
       ScoreIn(users, sender) = 20 /\ CalledIn(users, sender)
         /\ myLastHour = 10 /\ myLastMinute = 0
  /\ C3_BeforeSecond =>
       ScoreIn(users, sender) = 10 /\ users[1].score = 20
         /\ myLastHour = 10 /\ myLastMinute = 0
  /\ C3_BeforeThird =>
       ScoreIn(users, sender) = 10 /\ users[2].score = 10
         /\ myLastHour = 10 /\ myLastMinute = 0

C4_WrongTime == DankTimeMessage /\ Matched # {} /\ MatchedNow = {}

C4_Highest == CHOOSE p \in {Slots[i].points : i \in Matched} :
                \A i \in Matched : Slots[i].points <= p

---------------------------------------------------------------------------
ScoresAsBefore ==
  /\ Len(users) = Len(pre.users)
  /\ \A i \in 1..Len(users) :
       users[i].id = pre.users[i].id /\ users[i].score = pre.users[i].score

\* "YES" in any letter case.
AnyCaseYES == {<<y, e, s>> : y \in {"y", "Y"}, e \in {"e", "E"}, s \in {"s", "S"}}

AwaitedConfirms ==
  /\ IsMessage
  /\ NotStale
  /\ pre.awaitingResetConfirmation = sender
  /\ call.msgText \in AnyCaseYES

\* C5 as stated: while the chat is not running, no call of processMessage
\* changes a score.
C5_StoppedNeverChangesScore == (IsMessage /\ ~pre.running) => ScoresAsBefore

\* C5 amended: while the chat is not running, a call of processMessage
\* changes a score only when it is the awaited confirmation of a reset, which
\* sets every score to 0.
C5_StoppedOnlyResets ==
  (IsMessage /\ ~pre.running) =>
    \/ ScoresAsBefore
    \/ AwaitedConfirms /\ \A i \in 1..Len(users) : users[i].score = 0

C5_Witness ==
  /\ IsMessage
  /\ ~pre.running
  /\ NotStale
  /\ pre.awaitingResetConfirmation # sender
  /\ MatchedNow # {}
  /\ \E i \in 1..Len(users) : users[i].score # 0
  /\ ScoresAsBefore

\* C6: a message 60 or more seconds old is discarded: processMessage returns
\* nothing, triggers no extension point and leaves the chat as it was; a
\* message at most 59 seconds old is not discarded: the pre-message extension
\* point is triggered with it.
C6_StaleDiscarded ==
  /\ (IsMessage /\ Stale) => output = <<>> /\ events = <<>> /\ Fields = pre
  /\ (IsMessage /\ NotStale) => Fired(<<"PreMesssage", call.msgText>>)

C6_Witness ==
  /\ IsMessage
  /\ pre.now - call.msgUnixTime = 60
  /\ pre.running
  /\ pre.awaitingResetConfirmation # sender
  /\ MatchedNow # {}
  /\ users # <<>>
  /\ Fields = pre

\* C7: when the sender is the user whose confirmation is awaited and the
\* message in time is "YES" in any letter case, the reply has the leaderboard
\* titled FINAL with the scores as they were, every score is then 0, the
\* leaderboard-reset extension point is triggered after the scores are reset,
\* and awaitingResetConfirmation ends as -1.
C7_ConfirmedResets ==
  AwaitedConfirms =>
    /\ \E i \in 1..Len(output) :
         /\ output[i][1] = "Leaderboard has been reset!"
         /\ output[i][2][1] = "FINAL LEADERBOARD"
         /\ Len(output[i][2][2][2]) = Len(pre.users)
         /\ \A k \in 1..Len(pre.users) :
              output[i][2][2][2][k].score = pre.users[k].score
    /\ \A i \in 1..Len(users) : users[i].score = 0
    /\ \E j \in 1..Len(events) :
         /\ events[j][1] = "LeaderboardReset"
         /\ \A k \in 1..Len(events[j][2]) : events[j][2][k].score = 0
    /\ awaitingResetConfirmation = NoUser

C7_Witness ==
  /\ AwaitedConfirms
  /\ call.msgText = yes
  /\ \E i \in 1..Len(pre.users) : pre.users[i].score # 0
  /\ \A i \in 1..Len(users) : users[i].score = 0

\* C8: the first message in time from the awaited user sets
\* awaitingResetConfirmation to -1 whatever its text; if the text is not "YES"
\* in any letter case no score changes; and a "YES" from a user who is not
\* awaited resets nothing.
C8_SingleShot ==
  /\ (IsMessage /\ NotStale /\ pre.awaitingResetConfirmation = sender) =>
       /\ awaitingResetConfirmation = NoUser
       /\ call.msgText \notin AnyCaseYES => ScoresAsBefore
  /\ (IsMessage /\ pre.awaitingResetConfirmation # sender /\ call.msgText \in AnyCaseYES) =>
       /\ \A j \in 1..Len(events) : events[j][1] # "LeaderboardReset"
       /\ \A i \in 1..Len(pre.users) :
            pre.users[i].id # sender => users[i].score = pre.users[i].score
       /\ Matched = {} => ScoresAsBefore

C8_Witness ==
  /\ IsMessage
  /\ NotStale
  /\ pre.awaitingResetConfirmation = sender
  /\ call.msgText = no
  /\ awaitingResetConfirmation = NoUser
  /\ \E i \in 1..Len(users) : users[i].score # 0
  /\ ScoresAsBefore

\* C9: leaderboardChanged() is true exactly when some user has a
\* lastScoreChange other than 0, and right after generateLeaderboard() it is
\* false: every lastScoreChange is 0 and the snapshot of the users as they
\* were is the stored leaderboard.
C9_LeaderboardUnchangedAfterGenerating ==
  /\ leaderboardChanged <=> \E i \in 1..Len(users) : users[i].lastScoreChange # 0
  /\ call.op = "generateLeaderboard" =>
       /\ ~leaderboardChanged
       /\ \A i \in 1..Len(users) : users[i].lastScoreChange = 0
       /\ myLastLeaderboard[1] = "leaderboard"
       /\ Len(myLastLeaderboard[2]) = Len(pre.users)
       /\ \A k \in 1..Len(pre.users) :
            /\ myLastLeaderboard[2][k].id = pre.users[k].id
            /\ myLastLeaderboard[2][k].score = pre.users[k].score
            /\ myLastLeaderboard[2][k].lastScoreChange = pre.users[k].lastScoreChange

C9_Witness ==
  /\ call.op = "generateLeaderboard"
  /\ \E i \in 1..Len(pre.users) : pre.users[i].lastScoreChange # 0
  /\ ~leaderboardChanged

\* C10: hardcoreModeCheck(t) changes no user when hardcoreMode is off; when it
\* is on it takes max(round(score x 0.1), 10) from the users with
\* t - lastScoreTimestamp >= 86400 and sets their lastScoreTimestamp to t,
\* leaves the other users as they were, and a second call with the same t
\* takes nothing more.
C10_Overdue(user) == call.timestamp - user.lastScoreTimestamp >= 86400

C10_Punishment(score) ==
  LET tenth == (2 * score + 10) \div 20
  IN IF tenth > 10 THEN tenth ELSE 10

C10_HardcorePunishesOverdue ==
  call.op = "hardcoreModeCheck" =>
    /\ Len(users) = Len(pre.users)
    /\ ~settings.hardcoreMode => users = pre.users
    /\ settings.hardcoreMode =>
         \A i \in 1..Len(users) :
           IF C10_Overdue(pre.users[i])
             THEN /\ users[i].id = pre.users[i].id
                  /\ users[i].score = pre.users[i].score - C10_Punishment(pre.users[i].score)
                  /\ users[i].lastScoreTimestamp = call.timestamp
             ELSE users[i] = pre.users[i]
    /\ hardcoreModeCheckUsers(users, call.timestamp) = users

C10_Witness ==
  /\ call.op = "hardcoreModeCheck"
  /\ settings.hardcoreMode
  /\ \E i \in 1..Len(users) :
       C10_Overdue(pre.users[i]) /\ users[i].score = pre.users[i].score - 11
  /\ \E i \in 1..Len(users) :
       ~C10_Overdue(pre.users[i]) /\ users[i].score # 0

---------------------------------------------------------------------------
(* The daily update of main.ts: the job the cron pattern "0 0 0 * * *" runs
   when the clock reaches midnight. *)

Midnights == {DayZero + day, DayZero + 2 * day}

\* A daily update that does not ask whether the chat is running.
dailyUpdateCallsForAll(chatRunning) ==
  <<"unscheduleRandomDankTimesOfChat", "unscheduleAutoLeaderboardsOfChat",
    "generateRandomDankTimes",
    "scheduleRandomDankTimesOfChat", "scheduleAutoLeaderboardsOfChat",
    "hardcoreModeCheck">>

\* What the job calls for a chat, in order.
dailyUpdateCalls(chatRunning) ==
  IF chatRunning
    THEN <<"unscheduleRandomDankTimesOfChat", "unscheduleAutoLeaderboardsOfChat",
           "generateRandomDankTimes",
           "scheduleRandomDankTimesOfChat", "scheduleAutoLeaderboardsOfChat",
           "hardcoreModeCheck">>
    ELSE <<>>

Calls(list, name) == \E i \in 1..Len(list) : list[i] = name

dailyUpdate(picks) ==
  /\ call = Idle
  /\ \E t \in Midnights :
       /\ t > now
       /\ \A other \in Midnights : other > now => t <= other
       /\ now' = t
  /\ LET calls == dailyUpdateCalls(running)
     IN /\ randomDankTimes' =
             IF Calls(calls, "generateRandomDankTimes")
               THEN generateRandomDankTimesFrom(1, picks, <<>>, dankTimes, now',
                                                settings.pointsPerRandomTime)
               ELSE randomDankTimes
        /\ users' =
             IF Calls(calls, "hardcoreModeCheck")
               THEN hardcoreModeCheckUsers(users, now')
               ELSE users
        /\ events' = calls
  /\ call' = [op |-> "dailyUpdate", picks |-> picks, timestamp |-> now']
  /\ output' = <<>>
  /\ pre' = Fields
  /\ UNCHANGED <<myId, running, myLastHour, myLastMinute, dankTimes, settings,
                 awaitingResetConfirmation, myLastLeaderboard>>
  /\ Counted

NextDaily ==
  \/ sendReply
  \/ \E value \in BOOLEAN : setRunning(value)
  \/ \E userId \in UserIds, msgText \in MsgTexts :
       \E userName \in NamesOf(userId) :
         processMessage(userId, userName, msgText, now - 59)
  \/ \E picks \in [1..settings.numberOfRandomTimes -> RandomHours \X RandomMinutes] :
       dailyUpdate(picks)

SpecDaily == Init /\ [][NextDaily]_vars

---------------------------------------------------------------------------
(* The validating setters.  A JavaScript number is a fraction
   <<numerator, denominator>> with a positive denominator. *)

lessThan(value, bound) == value[1] < bound * value[2]
greaterThan(value, bound) == value[1] > bound * value[2]

\* value % 1 !== 0
notWhole(value) == value[1] % value[2] # 0

\* The whole number a value that passed the checks is.
wholeOf(value) == value[1] \div value[2]

RangeError(message) == [throws |-> "RangeError", message |-> message]

invalidId(id) == notWhole(id)

\* The check of the lastHour setter with 24 let through.
invalidLastHourAbove24(lastHour) ==
  lessThan(lastHour, 0) \/ greaterThan(lastHour, 24) \/ notWhole(lastHour)

invalidLastHour(lastHour) ==
  lessThan(lastHour, 0) \/ greaterThan(lastHour, 23) \/ notWhole(lastHour)

invalidLastMinute(lastMinute) ==
  lessThan(lastMinute, 0) \/ greaterThan(lastMinute, 59) \/ notWhole(lastMinute)

\* ChatSetting.setValueFromString: the typed value of the string, or none.
BooleanSettings == {"handicaps", "hardcoreMode", "firstNotifications"}

valueFromString(name, value) ==
  IF name \in BooleanSettings
    THEN IF value = "true" THEN <<TRUE>> ELSE IF value = "false" THEN <<FALSE>> ELSE <<>>
    ELSE IF value = "3"
      THEN IF name = "multiplier" THEN <<(<<3, 1>>)>> ELSE <<3>>
      ELSE <<>>

\* The numbers and strings the setters are given.
IdInputs == {<<ChatId, 1>>, <<7, 1>>, <<15, 2>>}
HourInputs == {<<0 - 1, 1>>, <<0, 1>>, <<10, 1>>, <<21, 2>>, <<23, 1>>, <<24, 1>>}
MinuteInputs == {<<0 - 1, 2>>, <<0, 1>>, <<30, 1>>, <<59, 1>>, <<60, 1>>, <<119, 2>>}
SettingNames == {"multiplier", "handicaps", "handicap", "Multiplier"}
SettingValues == {"true", "false", "3", "three"}

setId(id) ==
  /\ call = Idle
  /\ IF invalidId(id)
       THEN /\ output' = <<RangeError("The id must be a whole number!")>>
            /\ UNCHANGED myId
       ELSE /\ myId' = wholeOf(id)
            /\ output' = <<>>
  /\ call' = [op |-> "setId", value |-> id]
  /\ events' = <<>>
  /\ pre' = Fields
  /\ UNCHANGED <<now, running, myLastHour, myLastMinute, users, dankTimes, randomDankTimes,
                 settings, awaitingResetConfirmation, myLastLeaderboard>>
  /\ Counted

setLastHour(lastHour) ==
  /\ call = Idle
  /\ IF invalidLastHour(lastHour)
       THEN /\ output' = <<RangeError("The hour must be a whole number between 0 and 23!")>>
            /\ UNCHANGED myLastHour
       ELSE /\ myLastHour' = wholeOf(lastHour)
            /\ output' = <<>>
  /\ call' = [op |-> "setLastHour", value |-> lastHour]
  /\ events' = <<>>
  /\ pre' = Fields
  /\ UNCHANGED <<now, myId, running, myLastMinute, users, dankTimes, randomDankTimes,
                 settings, awaitingResetConfirmation, myLastLeaderboard>>
  /\ Counted

setLastMinute(lastMinute) ==
  /\ call = Idle
  /\ IF invalidLastMinute(lastMinute)
       THEN /\ output' =
                 <<RangeError("The minute must be a whole number between 0 and 59!")>>
            /\ UNCHANGED myLastMinute
       ELSE /\ myLastMinute' = wholeOf(lastMinute)
            /\ output' = <<>>
  /\ call' = [op |-> "setLastMinute", value |-> lastMinute]
  /\ events' = <<>>
  /\ pre' = Fields
  /\ UNCHANGED <<now, myId, running, myLastHour, users, dankTimes, randomDankTimes,
                 settings, awaitingResetConfirmation, myLastLeaderboard>>
  /\ Counted

setSetting(name, value) ==
  /\ call = Idle
  /\ IF name \notin DOMAIN settings
       THEN /\ output' = <<RangeError("This setting does not exist!")>>
            /\ UNCHANGED settings
       ELSE IF valueFromString(name, value) = <<>>
         THEN /\ output' = <<[throws |-> "Error", message |-> value]>>
              /\ UNCHANGED settings
         ELSE /\ settings' = [settings EXCEPT ![name] = valueFromString(name, value)[1]]
              /\ output' = <<>>
  /\ call' = [op |-> "setSetting", name |-> name, value |-> value]
  /\ events' = <<>>
  /\ pre' = Fields
  /\ UNCHANGED <<now, myId, running, myLastHour, myLastMinute, users, dankTimes,
                 randomDankTimes, awaitingResetConfirmation, myLastLeaderboard>>
  /\ Counted

NextSetters ==
  \/ sendReply
  \/ \E id \in IdInputs : setId(id)
  \/ \E lastHour \in HourInputs : setLastHour(lastHour)
  \/ \E lastMinute \in MinuteInputs : setLastMinute(lastMinute)
  \/ \E name \in SettingNames, value \in SettingValues : setSetting(name, value)

SpecSetters == Init /\ [][NextSetters]_vars

---------------------------------------------------------------------------
(* The catalogue of normal dank times. *)

\* The places of a list that hold a dank time at the hour and minute.
At(list, hour, minute) ==
  {i \in 1..Len(list) : list[i].hour = hour /\ list[i].minute = minute}

OnePerTime(list) ==
  \A i, j \in 1..Len(list) :
    i # j => <<list[i].hour, list[i].minute>> # <<list[j].hour, list[j].minute>>

ByHourThenMinute(list) ==
  \A i \in 1..(Len(list) - 1) :
    \/ list[i].hour < list[i + 1].hour
    \/ list[i].hour = list[i + 1].hour /\ list[i].minute <= list[i + 1].minute

\* C11: whatever dank times were added and removed, the normal catalogue holds
\* at most one dank time per hour and minute and is sorted by hour, then
\* minute; after addDankTime(s), s is the dank time getDankTime finds at its
\* hour and minute, and when one was there already the catalogue keeps its
\* size and otherwise grows by one.
C11_Added == call.op = "addDankTime"

C11_OnePerTimeInOrder ==
  /\ OnePerTime(dankTimes)
  /\ ByHourThenMinute(dankTimes)
  /\ C11_Added =>
       LET s == call.dankTime
       IN /\ \E i \in 1..Len(dankTimes) : dankTimes[i] = s
          /\ getDankTime(dankTimes, s.hour, s.minute) = s
          /\ Len(dankTimes) =
               IF At(pre.dankTimes, s.hour, s.minute) # {}
                 THEN Len(pre.dankTimes)
                 ELSE Len(pre.dankTimes) + 1

\* A dank time replaced another with other points, and was sorted in before
\* the last of three.
C11_Witness ==
  /\ C11_Added
  /\ \E i \in At(pre.dankTimes, call.dankTime.hour, call.dankTime.minute) :
       pre.dankTimes[i].points # call.dankTime.points
  /\ Len(dankTimes) = 3
  /\ dankTimes[2] = call.dankTime

\* C12: removeDankTime(hour, minute) returns false and leaves the catalogue as
\* it was when no normal dank time is at the hour and minute; otherwise it
\* returns true and takes out that dank time and no other, after which
\* getDankTime finds none there.  It returns a boolean in both cases.
C12_Removed == call.op = "removeDankTime"

C12_Others(list) ==
  SelectSeq(list, LAMBDA dankTime :
    ~(dankTime.hour = call.hour /\ dankTime.minute = call.minute))

C12_RemovesExactlyThat ==
  C12_Removed =>
    /\ output \in {<<TRUE>>, <<FALSE>>}
    /\ IF At(pre.dankTimes, call.hour, call.minute) = {}
         THEN output = <<FALSE>> /\ dankTimes = pre.dankTimes
         ELSE /\ output = <<TRUE>>
              /\ dankTimes = C12_Others(pre.dankTimes)
              /\ Len(dankTimes) = Len(pre.dankTimes) - 1
              /\ getDankTime(dankTimes, call.hour, call.minute) = null

\* The second of three dank times was removed.
C12_Witness ==
  /\ C12_Removed
  /\ output = <<TRUE>>
  /\ Len(pre.dankTimes) = 3
  /\ At(pre.dankTimes, call.hour, call.minute) = {2}

---------------------------------------------------------------------------
(* The random dank times. *)

Generated == call.op = "generateRandomDankTimes"

\* The hour and minute the i-th iteration drew: its hours after the clock's
\* hour, and its minute.
DrawnTime(i) == <<(hours(pre.now) + call.picks[i][1]) % 24, call.picks[i][2]>>

\* C13: generateRandomDankTimes returns the new list of random dank times, at
\* most numberOfRandomTimes of them and none kept from before: each stands at
\* the time one iteration drew, every drawn time free of a normal dank time
\* has one, no two share an hour and minute, none shares one with a normal
\* dank time, and each has the single text padNumber(hour) + padNumber(minute)
\* and pointsPerRandomTime points.
C13_FreshAndDistinct ==
  Generated =>
    /\ output = randomDankTimes
    /\ Len(randomDankTimes) <= settings.numberOfRandomTimes
    /\ OnePerTime(randomDankTimes)
    /\ \A i \in 1..Len(randomDankTimes) :
         LET slot == randomDankTimes[i]
         IN /\ \E k \in 1..Len(call.picks) : <<slot.hour, slot.minute>> = DrawnTime(k)
            /\ At(dankTimes, slot.hour, slot.minute) = {}
            /\ slot.texts = <<padNumber(slot.hour) \o padNumber(slot.minute)>>
            /\ slot.points = settings.pointsPerRandomTime
    /\ \A k \in 1..Len(call.picks) :
         \/ At(dankTimes, DrawnTime(k)[1], DrawnTime(k)[2]) # {}
         \/ At(randomDankTimes, DrawnTime(k)[1], DrawnTime(k)[2]) # {}

\* Two different times were drawn, one of them taken by a normal dank time,
\* and the random dank time of the day before is gone.
C13_Witness ==
  /\ Generated
  /\ DrawnTime(1) # DrawnTime(2)
  /\ Len(randomDankTimes) = 1
  /\ pre.randomDankTimes = <<RandomTime>>
  /\ randomDankTimes[1].points # RandomTime.points

---------------------------------------------------------------------------
(* Validation. *)

Thrown(kind) == Len(output) = 1 /\ output[1].throws = kind

\* The value is one of the whole numbers low..high.
WholeWithin(value, low, high) == \E n \in low..high : value[1] = n * value[2]

C15_Failed ==
  \/ call.op = "setSetting" /\ call.name \notin DOMAIN pre.settings
  \/ call.op = "setLastHour" /\ ~WholeWithin(call.value, 0, 23)
  \/ call.op = "setLastMinute" /\ ~WholeWithin(call.value, 0, 59)
  \/ call.op = "setId" /\ call.value[1] % call.value[2] # 0

\* C15: setSetting with a name that is not registered, an assignment to
\* lastHour of anything but a whole number from 0 to 23, to lastMinute of
\* anything but a whole number from 0 to 59, and to id of a number that is not
\* whole each raise a range error and leave every field of the chat, the
\* assigned one included, as it was.
C15_FailureChangesNothing ==
  C15_Failed => Thrown("RangeError") /\ Fields = pre

\* Half past ten was refused as lastHour after ten had been assigned.
C15_Witness ==
  /\ call.op = "setLastHour"
  /\ call.value = <<21, 2>>
  /\ Thrown("RangeError")
  /\ myLastHour = 10
  /\ settings # Defaults /\ settings # Hardcore

---------------------------------------------------------------------------
(* The extension points around a message. *)

PreMessageReply == <<"plugin", "PreMesssage">>
PostMessageReply == <<"plugin", "PostMessage">>

\* C16: for every message that is not stale, running or not and awaiting a
\* confirmation or not, the pre-message extension point is triggered once,
\* with the text as sent and before everything else, and the post-message
\* extension point once, with the cleaned text and after everything else; the
\* replies returned start with those of the pre-message extension point and
\* end with those of the post-message one, the handler's in between.
C16_PreHandlerPost ==
  (IsMessage /\ NotStale) =>
    /\ Len(events) >= 2
    /\ events[1] = <<"PreMesssage", call.msgText>>
    /\ events[Len(events)] = <<"PostMessage", <<"cleaned", call.msgText>>>>
    /\ \A i \in 2..(Len(events) - 1) : events[i][1] \notin {"PreMesssage", "PostMessage"}
    /\ Len(output) >= 2
    /\ output[1] = PreMessageReply
    /\ output[Len(output)] = PostMessageReply
    /\ \A i \in 2..(Len(output) - 1) : output[i] \notin {PreMessageReply, PostMessageReply}

\* While a confirmation was awaited, the handler triggered an extension point
\* and replied between the two.
C16_Witness ==
  /\ IsMessage
  /\ NotStale
  /\ Len(events) = 3
  /\ Len(output) >= 4
  /\ pre.awaitingResetConfirmation # NoUser

---------------------------------------------------------------------------
(* The handicap. *)

C17_Awarded ==
  /\ DankTimeMessage
  /\ MatchedNow # {}
  /\ ~(IsActive(TheSlot) /\ CalledIn(pre.users, sender))

\* The award before the handicap, as a fraction: the slot's points, times the
\* multiplier for the first caller of the slot.
C17_Base ==
  IF IsActive(TheSlot)
    THEN <<TheSlot.points, 1>>
    ELSE <<TheSlot.points * settings.multiplier[1], settings.multiplier[2]>>

C17_Delta == ScoreIn(users, sender) - ScoreIn(pre.users, sender)

\* C17: an award is multiplied by 1.5 before rounding exactly when the
\* handicaps setting is true, the chat has at least two users and the sender
\* is among the last round(userCount x 0.25) of the users ordered by score,
\* highest first, counted with the sender's record created and before the
\* award is added; every other award is the rounded base, and a penalty is
\* never multiplied.
C17_HandicapForBottomOnly ==
  /\ C17_Awarded =>
       C17_Delta =
         IF settings.handicaps /\ UserCount >= 2 /\ SenderPlace > UserCount - BottomCount
           THEN (2 * 3 * C17_Base[1] + 2 * C17_Base[2]) \div (2 * 2 * C17_Base[2])
           ELSE (2 * C17_Base[1] + C17_Base[2]) \div (2 * C17_Base[2])
  /\ (DankTimeMessage /\ MatchedNow # {} /\ ~C17_Awarded) => C17_Delta = -TheSlot.points

\* The fifth of six users got the bonus on the first call of a slot.
C17_Witness ==
  /\ C17_Awarded
  /\ settings.handicaps
  /\ UserCount = 6
  /\ SenderPlace = 5
  /\ C17_Delta = 30

---------------------------------------------------------------------------
(* Occurrences of a slot. *)

\* The user's score last changed within the current minute of the clock.
C18_ChangedThisMinute(user) == user.lastScoreTimestamp \div 60 = pre.now \div 60

\* C18: for every occurrence of a slot's minute on the local clock, the same
\* hour and minute of a later day and a slot at the chat's initial lastHour
\* and lastMinute included, the first user to send the slot's alias has every
\* other called flag reset and gets round(points x multiplier), and a user
\* loses points as a repeat caller only after scoring in that same occurrence.
\* Here: when no user's score has changed within the current minute, so that
\* nobody has scored in this occurrence, the sender is treated as its first
\* caller; and a sender who loses the slot's points has called and has had a
\* score change within the current minute.
C18_FirstOfEveryOccurrence ==
  (DankTimeMessage /\ MatchedNow # {}) =>
    /\ (\A i \in 1..Len(pre.users) : ~C18_ChangedThisMinute(pre.users[i])) =>
         /\ \A i \in 1..Len(users) : users[i].called <=> users[i].id = sender
         /\ ScoreIn(users, sender) =
              ScoreIn(pre.users, sender) + Award(TheSlot.points, settings.multiplier)
    /\ ScoreIn(users, sender) < ScoreIn(pre.users, sender) =>
         /\ CalledIn(pre.users, sender)
         /\ C18_ChangedThisMinute(Record(pre.users, sender))

---------------------------------------------------------------------------
(* One handler per message. *)

ScoreChanged(userId) ==
  \E i \in 1..Len(events) : events[i][1] = "UserScoreChange" /\ events[i][2] = userId

\* The same users under the same names with the same called flags.
C19_RecordsAsBefore ==
  /\ Len(users) = Len(pre.users)
  /\ \A i \in 1..Len(users) :
       /\ users[i].id = pre.users[i].id
       /\ users[i].name = pre.users[i].name
       /\ users[i].called = pre.users[i].called

\* C19: a message in time from the user whose confirmation is awaited does not
\* run the dank time handler, even when its text is an alias of a slot at the
\* current time: no user is created or renamed, no called flag and neither
\* lastHour nor lastMinute changes, no score change is announced and every
\* score stays or, on a confirmation, becomes 0.  A message in time from any
\* other user leaves awaitingResetConfirmation as it was and, with the chat
\* running and the text an alias of a slot, is scored by the dank time handler.
C19_OneHandlerPerMessage ==
  /\ (IsMessage /\ NotStale /\ pre.awaitingResetConfirmation = sender) =>
       /\ C19_RecordsAsBefore
       /\ ActiveSlotAsBefore
       /\ \A i \in 1..Len(events) : events[i][1] # "UserScoreChange"
       /\ \A i \in 1..Len(users) : users[i].score \in {pre.users[i].score, 0}
  /\ (IsMessage /\ NotStale /\ pre.awaitingResetConfirmation # sender) =>
       /\ awaitingResetConfirmation = pre.awaitingResetConfirmation
       /\ \A i \in 1..Len(events) : events[i][1] # "LeaderboardReset"
       /\ (pre.running /\ Matched # {}) =>
            /\ Known(users, sender)
            /\ ScoreChanged(sender)
            /\ ScoreIn(users, sender) # ScoreIn(pre.users, sender)

\* The awaited user sent, with the chat running, the alias of a slot at the
\* current time that nobody had called, and has no record.
C19_Witness ==
  /\ IsMessage
  /\ NotStale
  /\ pre.running
  /\ pre.awaitingResetConfirmation = sender
  /\ MatchedNow # {}
  /\ ~IsActive(TheSlot)
  /\ ~Known(users, sender)
  /\ Len(users) > 0

---------------------------------------------------------------------------
(* Texts that are no alias. *)

C20_NoEffect ==
  /\ users = pre.users
  /\ ActiveSlotAsBefore
  /\ \A i \in 1..Len(events) : events[i][1] # "UserScoreChange"
  /\ output = <<PreMessageReply, PostMessageReply>>

\* C20 as stated: with the chat running, a message in time whose text is not
\* an alias of any normal or random slot creates and renames no user, changes
\* no score, no called flag and neither lastHour nor lastMinute, announces no
\* score change and adds no reply of the handler.
C20_NoAliasNoEffect ==
  (IsMessage /\ NotStale /\ pre.running /\ Matched = {}) => C20_NoEffect

\* C20: the same of a message from a user other than the one whose reset
\* confirmation is awaited, which is the message the dank time handler gets.
C20_NoAliasNoEffectUnlessAwaited ==
  (DankTimeMessage /\ Matched = {}) => C20_NoEffect

\* A user known under another name sent a text that is no alias.
C20_Witness ==
  /\ DankTimeMessage
  /\ Matched = {}
  /\ Known(pre.users, sender)
  /\ Record(pre.users, sender).name # call.userName
  /\ Record(pre.users, sender).called

---------------------------------------------------------------------------
(* The effect of the dank time handler on scores. *)

C21_Handled == DankTimeMessage /\ Matched # {}

C21_ScoreChanges == {i \in 1..Len(events) : events[i][1] = "UserScoreChange"}

C21_LastScoreChangeIn(us, userId) ==
  IF Known(us, userId) THEN Record(us, userId).lastScoreChange ELSE 0

\* C21: every run of the dank time handler on a text that is an alias of some
\* slot leaves the score of every user but the sender as it was and triggers
\* the user-score-changed extension point exactly once, for the sender and
\* with a delta that is both the change of the sender's score and the increase
\* of the sender's lastScoreChange.
C21_OneScoreChangeOfSender ==
  C21_Handled =>
    /\ \A i \in 1..Len(pre.users) :
         /\ users[i].id = pre.users[i].id
         /\ users[i].id # sender => users[i].score = pre.users[i].score
    /\ \A i \in 1..Len(users) : i > Len(pre.users) => users[i].id = sender
    /\ Cardinality(C21_ScoreChanges) = 1
    /\ \A i \in C21_ScoreChanges :
         /\ events[i][2] = sender
         /\ events[i][3] = ScoreIn(users, sender) - ScoreIn(pre.users, sender)
         /\ events[i][3] = C21_LastScoreChangeIn(users, sender)
                             - C21_LastScoreChangeIn(pre.users, sender)

\* A sender with a score and a pending score change lost points, next to
\* another user with a score.
C21_Witness ==
  /\ C21_Handled
  /\ ScoreIn(pre.users, sender) > 0
  /\ C21_LastScoreChangeIn(pre.users, sender) > 0
  /\ ScoreIn(users, sender) < ScoreIn(pre.users, sender)
  /\ \E i \in 1..Len(users) : users[i].id # sender /\ users[i].score # 0

---------------------------------------------------------------------------
(* The multiplier and the called flags between changes of the active slot. *)

C22_Changed ==
  call # Idle /\ <<myLastHour, myLastMinute>> # <<pre.lastHour, pre.lastMinute>>

\* The sender was awarded the slot's points times the multiplier, with or
\* without the handicap.
C22_MultiplierAward ==
  /\ DankTimeMessage
  /\ MatchedNow # {}
  /\ LET whole == TheSlot.points * settings.multiplier[1]
         part == settings.multiplier[2]
     IN ScoreIn(users, sender) - ScoreIn(pre.users, sender) \in
          {(2 * whole + part) \div (2 * part), (2 * 3 * whole + 2 * part) \div (4 * part)}

\* C22: an operation changes lastHour or lastMinute exactly when it makes an
\* award that includes the multiplier, so that between two consecutive changes
\* the only such award is the one that made the first of them; right after it
\* the sender is the only user with called = true; and a user's called flag
\* turns false only in an operation that makes such a change.
C22_OneMultiplierPerChange ==
  call # Idle =>
    /\ C22_Changed <=> C22_MultiplierAward
    /\ C22_Changed => \A i \in 1..Len(users) : users[i].called <=> users[i].id = sender
    /\ \A i \in 1..Len(pre.users) :
         (pre.users[i].called /\ ~CalledIn(users, pre.users[i].id)) => C22_Changed

\* The active slot changed from 10:00 to 10:01 and the caller of 10:00 is no
\* longer called.
C22_Witness ==
  /\ C22_Changed
  /\ pre.lastHour = 10 /\ pre.lastMinute = 0
  /\ myLastHour = 10 /\ myLastMinute = 1
  /\ \E i \in 1..Len(pre.users) :
       pre.users[i].called /\ pre.users[i].id # sender /\ ~users[i].called

---------------------------------------------------------------------------
(* The daily update. *)

Updated == call.op = "dailyUpdate"

\* The place of a call among those the update made, 0 when it did not make it.
C23_Place(name) ==
  IF \E i \in 1..Len(events) : events[i] = name
    THEN CHOOSE i \in 1..Len(events) : events[i] = name
    ELSE 0

\* The random dank times are new ones, drawn at midnight, and the hardcore
\* check ran after they were generated, with the time of the update.
C23_Regenerated ==
  /\ \A i \in 1..Len(randomDankTimes) :
       \E k \in 1..Len(call.picks) :
         /\ randomDankTimes[i].hour = call.picks[k][1]
         /\ randomDankTimes[i].minute = call.picks[k][2]
  /\ \A k \in 1..Len(call.picks) :
       \/ At(dankTimes, call.picks[k][1], call.picks[k][2]) # {}
       \/ At(randomDankTimes, call.picks[k][1], call.picks[k][2]) # {}
  /\ 0 < C23_Place("generateRandomDankTimes")
  /\ C23_Place("generateRandomDankTimes") < C23_Place("hardcoreModeCheck")
  /\ call.timestamp = now
  /\ Len(users) = Len(pre.users)
  /\ \A i \in 1..Len(users) :
       IF settings.hardcoreMode /\ C10_Overdue(pre.users[i])
         THEN users[i].score = pre.users[i].score - C10_Punishment(pre.users[i].score)
         ELSE users[i] = pre.users[i]

====
